---- MODULE Spec2Model ----
(***************************************************************************)
(* chain_entities.py: three tasks (create_bucket, write, read) touching an *)
(* S3 object store, chained with >> in two workflows, one over tasks and   *)
(* one over subworkflows.  The model covers the definition of the          *)
(* workflows (the statements of the workflow bodies building the node      *)
(* graph), their execution (locally from __main__, or node by node by the  *)
(* engine along the recorded edges), the task cache, the object store and  *)
(* the CSV serialisation of the table.                                     *)
(***************************************************************************)
EXTENDS Integers, Sequences, FiniteSets, TLC

(* ------------------------------------------------------------------ *)
(* Bounds of the model                                                  *)
(* ------------------------------------------------------------------ *)

\* Executions launched on the engine in one behaviour (remote mode).
MaxRuns == 3

\* Storage operations that may fail with an error the code does not catch
\* (network, permission) in one behaviour.
MaxFaults == 1

(* ------------------------------------------------------------------ *)
(* Text: a string is a sequence of one-character strings               *)
(* ------------------------------------------------------------------ *)

Digits == <<"0", "1", "2", "3", "4", "5", "6", "7", "8", "9">>

IsDigit(c) == \E i \in 1..Len(Digits) : Digits[i] = c

DigitValue(c) == (CHOOSE i \in 1..Len(Digits) : Digits[i] = c) - 1

RECURSIVE IntToChars(_)
IntToChars(n) ==
    IF n < 10 THEN <<Digits[n + 1]>>
    ELSE IntToChars(n \div 10) \o <<Digits[(n % 10) + 1]>>

RECURSIVE CharsToInt(_)
CharsToInt(s) ==
    IF Len(s) = 0 THEN 0
    ELSE 10 * CharsToInt(SubSeq(s, 1, Len(s) - 1)) + DigitValue(s[Len(s)])

AllDigits(s) == Len(s) > 0 /\ \A i \in 1..Len(s) : IsDigit(s[i])

\* Position of the first occurrence of character c in s, 0 when absent.
IndexOf(s, c) ==
    IF \E i \in 1..Len(s) : s[i] = c
    THEN CHOOSE i \in 1..Len(s) : s[i] = c /\ \A j \in 1..(i - 1) : s[j] # c
    ELSE 0

\* s split at every occurrence of the separator (str.split(sep)).
RECURSIVE Split(_, _)
Split(s, sep) ==
    LET i == IndexOf(s, sep) IN
    IF i = 0 THEN <<s>>
    ELSE <<SubSeq(s, 1, i - 1)>> \o Split(SubSeq(s, i + 1, Len(s)), sep)

\* The parts joined with the separator between them (sep.join(parts)).
RECURSIVE Join(_, _)
Join(parts, sep) ==
    IF Len(parts) = 0 THEN <<>>
    ELSE IF Len(parts) = 1 THEN parts[1]
    ELSE parts[1] \o <<sep>> \o Join(Tail(parts), sep)

(* ------------------------------------------------------------------ *)
(* The table (pd.DataFrame) and its values                              *)
(* ------------------------------------------------------------------ *)

\* A float with one decimal is kept as its number of tenths.
FloatVal(t) == [dtype |-> "float64", tenths |-> t]
IntVal(n) == [dtype |-> "int64", n |-> n]
StrVal(s) == [dtype |-> "object", s |-> s]

sepal_length == <<"s", "e", "p", "a", "l", "_", "l", "e", "n", "g", "t", "h">>
sepal_width == <<"s", "e", "p", "a", "l", "_", "w", "i", "d", "t", "h">>
petal_length == <<"p", "e", "t", "a", "l", "_", "l", "e", "n", "g", "t", "h">>
petal_width == <<"p", "e", "t", "a", "l", "_", "w", "i", "d", "t", "h">>
species == <<"s", "p", "e", "c", "i", "e", "s">>
setosa == <<"s", "e", "t", "o", "s", "a">>

\* The table write() builds: one row, five columns, the default RangeIndex.
df ==
    [columns |-> <<sepal_length, sepal_width, petal_length, petal_width, species>>,
     index |-> <<0>>,
     rows |-> << <<FloatVal(53), FloatVal(38), FloatVal(1), FloatVal(3),
                   StrVal(setosa)>> >>]

\* The text of one value, as to_csv writes it.
FormatValue(v) ==
    IF v.dtype = "float64"
    THEN IntToChars(v.tenths \div 10) \o <<".">> \o IntToChars(v.tenths % 10)
    ELSE IF v.dtype = "int64" THEN IntToChars(v.n)
    ELSE v.s

\* DataFrame.to_csv(buf) with its defaults (header=True, index=True,
\* index_label=None): the header line starts with an empty field for the
\* index column, and every row starts with its index label.
to_csv(frame) ==
    LET header == Join(<<(<<>>)>> \o frame.columns, ",") \o <<"\n">>
        line(i) ==
            Join(<<IntToChars(frame.index[i])>>
                     \o [j \in 1..Len(frame.columns) |-> FormatValue(frame.rows[i][j])],
                 ",") \o <<"\n">>
        RECURSIVE lines(_)
        lines(i) == IF i > Len(frame.rows) THEN <<>> ELSE line(i) \o lines(i + 1)
    IN header \o lines(1)

IsFloatText(s) ==
    LET d == IndexOf(s, ".") IN
        /\ d > 1
        /\ d = Len(s) - 1
        /\ AllDigits(SubSeq(s, 1, d - 1))
        /\ IsDigit(s[Len(s)])

\* The value read_csv infers from the text of one field.
ParseValue(s) ==
    IF AllDigits(s) THEN IntVal(CharsToInt(s))
    ELSE IF IsFloatText(s)
    THEN FloatVal(10 * CharsToInt(SubSeq(s, 1, Len(s) - 2)) + DigitValue(s[Len(s)]))
    ELSE StrVal(s)

\* read_csv names a column whose header field is empty "Unnamed: <position>".
UnnamedColumn(i) ==
    <<"U", "n", "n", "a", "m", "e", "d", ":", " ">> \o IntToChars(i)

\* pd.read_csv(body) with its defaults (header=0, index_col=None): the first
\* line names the columns, every field of it is a column, and the rows get a
\* fresh RangeIndex.
read_csv(text) ==
    LET all == Split(text, "\n")
        ls == IF Len(all) > 0 /\ all[Len(all)] = <<>>
              THEN SubSeq(all, 1, Len(all) - 1) ELSE all
        head == Split(ls[1], ",")
        nrows == Len(ls) - 1
    IN  [columns |-> [j \in 1..Len(head) |->
                         IF head[j] = <<>> THEN UnnamedColumn(j - 1) ELSE head[j]],
         index |-> [i \in 1..nrows |-> i - 1],
         rows |-> [i \in 1..nrows |->
                      LET f == Split(ls[i + 1], ",")
                      IN [j \in 1..Len(f) |-> ParseValue(f[j])]]]

(* ------------------------------------------------------------------ *)
(* The object store behind s3_client()                                  *)
(* ------------------------------------------------------------------ *)

CSV_FILE == "iris.csv"
BUCKET_NAME == "chain-flyte-entities"

\* The store also holds things the file never names.
OTHER_KEY == "notes.txt"
OTHER_BUCKET == "another-bucket"

Buckets == {BUCKET_NAME, OTHER_BUCKET}
Keys == {CSV_FILE, OTHER_KEY}
Owners == {"none", "me", "other"}

NoObject == [present |-> FALSE, body |-> <<>>]
Object(body) == [present |-> TRUE, body |-> body]

\* Some text left in the store by somebody else.
StaleBody == <<"a", ",", "b", "\n", "1", ",", "x", "\n">>

\* create_bucket(Bucket=b): S3 answers BucketAlreadyOwnedByYou when the caller
\* owns the bucket and BucketAlreadyExists when somebody else does; fault is
\* any other error of the call (network, permission).
S3CreateBucket(s, b, fault) ==
    IF fault THEN [store |-> s, code |-> "ClientError"]
    ELSE IF s.owner[b] = "me" THEN [store |-> s, code |-> "BucketAlreadyOwnedByYou"]
    ELSE IF s.owner[b] = "other" THEN [store |-> s, code |-> "BucketAlreadyExists"]
    ELSE [store |-> [s EXCEPT !.owner[b] = "me"], code |-> "ok"]

\* put_object(Body=body, Bucket=b, Key=k): creates or replaces the object.
S3PutObject(s, b, k, body, fault) ==
    IF fault THEN [store |-> s, code |-> "ClientError"]
    ELSE IF s.owner[b] = "none" THEN [store |-> s, code |-> "NoSuchBucket"]
    ELSE IF s.owner[b] = "other" THEN [store |-> s, code |-> "AccessDenied"]
    ELSE [store |-> [s EXCEPT !.objects[<<b, k>>] = Object(body)], code |-> "ok"]

\* get_object(Bucket=b, Key=k)["Body"]: never changes the store.
S3GetObject(s, b, k, fault) ==
    IF fault THEN [code |-> "ClientError", body |-> <<>>]
    ELSE IF s.owner[b] = "none" THEN [code |-> "NoSuchBucket", body |-> <<>>]
    ELSE IF s.owner[b] = "other" THEN [code |-> "AccessDenied", body |-> <<>>]
    ELSE IF ~s.objects[<<b, k>>].present THEN [code |-> "NoSuchKey", body |-> <<>>]
    ELSE [code |-> "ok", body |-> s.objects[<<b, k>>].body]

(* ------------------------------------------------------------------ *)
(* The three tasks.  A task body maps the store to the store it leaves, *)
(* the storage answer it got, whether it raised, and the value returned *)
(* ------------------------------------------------------------------ *)

NoValue == [none |-> TRUE]

\* create_bucket without its except clause: every error is raised.
create_bucket_NoCatch(s, fault) ==
    LET r == S3CreateBucket(s, BUCKET_NAME, fault) IN
    [store |-> r.store, code |-> r.code, raised |-> r.code # "ok", value |-> NoValue]

\* create_bucket with a bare except: no error is raised.
create_bucket_CatchAll(s, fault) ==
    LET r == S3CreateBucket(s, BUCKET_NAME, fault) IN
    [store |-> r.store, code |-> r.code, raised |-> FALSE, value |-> NoValue]

\* try: client.create_bucket(...) except BucketAlreadyOwnedByYou: logger.info
create_bucket(s, fault) ==
    LET r == S3CreateBucket(s, BUCKET_NAME, fault) IN
    [store |-> r.store, code |-> r.code,
     raised |-> r.code \notin {"ok", "BucketAlreadyOwnedByYou"},
     value |-> NoValue]

\* csv_buffer.getvalue() after df.to_csv(csv_buffer).
csv_buffer == to_csv(df)

\* read_csv of the texts the store holds at the start or after write(),
\* computed once; any other text is parsed when it is read.
KnownTables == [t \in {StaleBody, csv_buffer} |-> read_csv(t)]
pd_read_csv(body) ==
    IF body \in DOMAIN KnownTables THEN KnownTables[body] ELSE read_csv(body)

\* pd.read_csv(s3_client().get_object(...)["Body"])
read(s, fault) ==
    LET r == S3GetObject(s, BUCKET_NAME, CSV_FILE, fault) IN
    [store |-> s, code |-> r.code, raised |-> r.code # "ok",
     value |-> IF r.code = "ok" THEN pd_read_csv(r.body) ELSE NoValue]

\* write appending to the object instead of replacing it.
write_Append(s, fault) ==
    LET r == S3PutObject(s, BUCKET_NAME, CSV_FILE,
                         s.objects[<<BUCKET_NAME, CSV_FILE>>].body \o csv_buffer, fault) IN
    [store |-> r.store, code |-> r.code, raised |-> r.code # "ok",
     value |-> NoValue]

\* df.to_csv(csv_buffer); put_object(Body=csv_buffer.getvalue(), ...)
write(s, fault) ==
    LET r == S3PutObject(s, BUCKET_NAME, CSV_FILE, csv_buffer, fault) IN
    [store |-> r.store, code |-> r.code, raised |-> r.code # "ok",
     value |-> NoValue]

TaskNames == {"create_bucket", "write", "read"}

RunTask(task, s, fault) ==
    IF task = "create_bucket" THEN create_bucket(s, fault)
    ELSE IF task = "write" THEN write(s, fault)
    ELSE read(s, fault)

\* @task(cache=True, cache_version="1.0") on create_bucket and write; @task on read.
Cacheable(task) == task \in {"create_bucket", "write"}

(* ------------------------------------------------------------------ *)
(* The workflows: the statements of their bodies                        *)
(* ------------------------------------------------------------------ *)

WorkflowNames ==
    {"chain_tasks_wf", "write_sub_workflow", "read_sub_workflow", "chain_workflows_wf"}

\* The order in which the module defines them.
DefOrder ==
    <<"chain_tasks_wf", "write_sub_workflow", "read_sub_workflow", "chain_workflows_wf">>

Call(entity) == [op |-> "call", entity |-> entity, a |-> 0, b |-> 0]
Rshift(a, b) == [op |-> ">>", entity |-> "", a |-> a, b |-> b]
Return(a) == [op |-> "return", entity |-> "", a |-> a, b |-> 0]

\* chain_tasks_wf with only the second of its two >> statements.
chain_tasks_wf_OneEdge ==
    <<Call("create_bucket"), Call("write"), Call("read"), Rshift(2, 3), Return(3)>>

\* chain_workflows_wf with a third >> statement closing a cycle.
chain_workflows_wf_Cycle ==
    <<Call("create_bucket"), Call("write_sub_workflow"), Call("read_sub_workflow"),
      Rshift(1, 2), Rshift(2, 3), Rshift(3, 1), Return(3)>>

\* The statements of each workflow body; a promise is named by the position
\* of the call that made it, and Return(0) is the implicit return None.
chain_tasks_wf ==
    <<Call("create_bucket"), Call("write"), Call("read"),
      Rshift(1, 2), Rshift(2, 3), Return(3)>>

write_sub_workflow == <<Call("write"), Return(0)>>

read_sub_workflow == <<Call("read"), Return(1)>>

chain_workflows_wf ==
    <<Call("create_bucket"), Call("write_sub_workflow"), Call("read_sub_workflow"),
      Rshift(1, 2), Rshift(2, 3), Return(3)>>

Body(w) ==
    IF w = "chain_tasks_wf" THEN chain_tasks_wf
    ELSE IF w = "write_sub_workflow" THEN write_sub_workflow
    ELSE IF w = "read_sub_workflow" THEN read_sub_workflow
    ELSE chain_workflows_wf

\* The declared outputs of an entity (its return annotation).
Outputs(entity) ==
    IF entity \in {"read", "read_sub_workflow", "chain_tasks_wf", "chain_workflows_wf"}
    THEN <<"o0">> ELSE <<>>

\* The node a call adds to the workflow being defined: none of the entities
\* takes an input, so no node has an input binding.
NewNode(entity) ==
    [entity |-> entity, inputs |-> {}, outputs |-> Outputs(entity), upstream |-> {}]

\* >> recording the edge the wrong way round.
Chain_Reversed(nodes, a, b) == [nodes EXCEPT ![a].upstream = @ \cup {b}]

\* >> also recording what is upstream of a as upstream of b.
Chain_Transitive(nodes, a, b) ==
    [nodes EXCEPT ![b].upstream = @ \cup {a} \cup nodes[a].upstream]

\* a >> b: node a is recorded as an upstream node of node b.
Chain(nodes, a, b) == [nodes EXCEPT ![b].upstream = @ \cup {a}]

(* ------------------------------------------------------------------ *)
(* State                                                                *)
(* ------------------------------------------------------------------ *)

VARIABLES
    wfs,          \* the workflows as defined so far: nodes, output binding
    defpc,        \* the statement of the module being defined next
    mode,         \* "local": the file is run as __main__; "remote": on the engine
    mainpc,       \* the position of the __main__ block
    runs,         \* executions launched so far
    run,          \* the current execution: workflow and status
    nstatus,      \* status of every node of the current execution
    nout,         \* output of every node of the current execution
    log,          \* events of the current execution, in order
    result,       \* what the current execution returned
    prev,         \* the execution before the current one, once it ended
    store,        \* the object store
    store0,       \* the object store at the start
    first,        \* the object store after the first successful execution
    cache,        \* tasks whose outputs the cache holds
    cacheEnabled, \* whether the engine consults the cache
    faults        \* uncaught storage errors that may still happen

vars ==
    <<wfs, defpc, mode, mainpc, runs, run, nstatus, nout, log, result, prev,
      store, store0, first, cache, cacheEnabled, faults>>

defVars == <<wfs, defpc>>
runVars == <<run, nstatus, nout, log, result>>
envVars == <<store, cache, faults, first>>
fixVars == <<mode, store0, cacheEnabled>>

\* The stores the program may find: the bucket absent, owned by the caller or
\* owned by somebody else, holding any of the two objects or none.
InitialStores ==
    {s \in [owner : [Buckets -> Owners],
            objects : [Buckets \X Keys -> {NoObject, Object(StaleBody)}]] :
        /\ s.owner[OTHER_BUCKET] = "me"
        /\ s.objects[<<OTHER_BUCKET, CSV_FILE>>] = NoObject
        /\ s.objects[<<OTHER_BUCKET, OTHER_KEY>>] = Object(StaleBody)
        /\ s.owner[BUCKET_NAME] = "none" =>
               \A k \in Keys : s.objects[<<BUCKET_NAME, k>>] = NoObject}

NoRun == [wf |-> "none", status |-> "idle"]
NoPrev == [wf |-> "none", status |-> "idle", events |-> <<>>, result |-> NoValue]

Init ==
    /\ wfs = [w \in WorkflowNames |-> [nodes |-> <<>>, output |-> 0, compiled |-> FALSE]]
    /\ defpc = [wf |-> 1, stmt |-> 1]
    /\ mode \in {"local", "remote"}
    /\ mainpc = IF mode = "local" THEN "call143" ELSE "skipped"
    /\ runs = 0
    /\ run = NoRun
    /\ nstatus = <<>>
    /\ nout = <<>>
    /\ log = <<>>
    /\ result = NoValue
    /\ prev = NoPrev
    /\ store \in InitialStores
    /\ store0 = store
    /\ first = [set |-> FALSE, store |-> store]
    /\ cache = {}
    /\ cacheEnabled \in BOOLEAN
    /\ faults = MaxFaults

(* ------------------------------------------------------------------ *)
(* Definition: the workflow bodies are run once, statement by statement *)
(* ------------------------------------------------------------------ *)

DefsDone == defpc.wf > Len(DefOrder)
DefWf == DefOrder[defpc.wf]
DefStmt == Body(DefWf)[defpc.stmt]

DefAdvance ==
    defpc' = IF defpc.stmt = Len(Body(DefWf))
             THEN [wf |-> defpc.wf + 1, stmt |-> 1]
             ELSE [defpc EXCEPT !.stmt = @ + 1]

\* x = entity(): a node for the entity is added to the workflow.
DefCall ==
    /\ ~DefsDone
    /\ DefStmt.op = "call"
    /\ wfs' = [wfs EXCEPT ![DefWf].nodes = Append(@, NewNode(DefStmt.entity))]
    /\ DefAdvance
    /\ UNCHANGED <<mainpc, runs, runVars, prev, envVars, fixVars>>

\* a >> b
DefChain ==
    /\ ~DefsDone
    /\ DefStmt.op = ">>"
    /\ wfs' = [wfs EXCEPT ![DefWf].nodes = Chain(@, DefStmt.a, DefStmt.b)]
    /\ DefAdvance
    /\ UNCHANGED <<mainpc, runs, runVars, prev, envVars, fixVars>>

\* return x: the workflow's output is bound to the output of node x.
DefReturn ==
    /\ ~DefsDone
    /\ DefStmt.op = "return"
    /\ wfs' = [wfs EXCEPT ![DefWf].output = DefStmt.a, ![DefWf].compiled = TRUE]
    /\ DefAdvance
    /\ UNCHANGED <<mainpc, runs, runVars, prev, envVars, fixVars>>

(* ------------------------------------------------------------------ *)
(* Execution of a workflow                                              *)
(* ------------------------------------------------------------------ *)

IsTask(entity) == entity \in TaskNames

\* A node of the running workflow is named by its path: <<i>> is node i of the
\* workflow, <<i, j>> is node j of the subworkflow that node i runs.
PathsOf(w) ==
    {<<i>> : i \in 1..Len(wfs[w].nodes)}
        \cup UNION {{<<i, j>> : j \in 1..Len(wfs[wfs[w].nodes[i].entity].nodes)} :
                      i \in {k \in 1..Len(wfs[w].nodes) : ~IsTask(wfs[w].nodes[k].entity)}}

NodeAt(p) ==
    IF Len(p) = 1 THEN wfs[run.wf].nodes[p[1]]
    ELSE wfs[wfs[run.wf].nodes[p[1]].entity].nodes[p[2]]

Parent(p) == SubSeq(p, 1, Len(p) - 1)
Last(p) == p[Len(p)]
Sibling(p, i) == Append(Parent(p), i)
Children(p) == {q \in DOMAIN nstatus : Len(q) = Len(p) + 1 /\ Parent(q) = p}

\* The nodes that must have succeeded before node p may start.  Run locally,
\* the body's calls execute one after the other as the body reaches them; on
\* the engine a node waits for its recorded upstream nodes only.
RunsBefore(p) ==
    IF mode = "local"
    THEN {Sibling(p, i) : i \in 1..(Last(p) - 1)}
    ELSE {Sibling(p, i) : i \in NodeAt(p).upstream}

Ready(p) ==
    /\ run.status = "running"
    /\ nstatus[p] = "queued"
    /\ Len(p) > 1 => nstatus[Parent(p)] = "running"
    /\ \A q \in RunsBefore(p) : nstatus[q] = "succeeded"

\* The cache answering for every cacheable task, entry or not.
CacheHit_NoLookup(task) == cacheEnabled /\ Cacheable(task)

\* The cache answers for a cacheable task it holds an entry for.
CacheHit(task) == cacheEnabled /\ Cacheable(task) /\ task \in cache

Event(p, ev, code) == [path |-> p, entity |-> NodeAt(p).entity, ev |-> ev, code |-> code]

\* The begin and end of every task in the log, in order; a task served from
\* the cache begins and ends at once.
RECURSIVE TaskEvents(_)
TaskEvents(l) ==
    IF Len(l) = 0 THEN <<>>
    ELSE LET e == l[Len(l)]
             rest == TaskEvents(SubSeq(l, 1, Len(l) - 1))
         IN IF ~IsTask(e.entity) THEN rest
            ELSE IF e.ev = "hit" THEN rest \o << <<e.entity, "begin">>, <<e.entity, "end">> >>
            ELSE rest \o << <<e.entity, e.ev>> >>

Summary == [wf |-> run.wf, status |-> run.status,
            events |-> TaskEvents(log), result |-> result]

\* A workflow is launched: all its nodes are queued.
Launch(w) ==
    /\ run' = [wf |-> w, status |-> "running"]
    /\ nstatus' = [p \in PathsOf(w) |-> "queued"]
    /\ nout' = [p \in PathsOf(w) |-> NoValue]
    /\ log' = <<>>
    /\ result' = NoValue
    /\ prev' = IF run.wf = "none" THEN prev ELSE Summary
    /\ runs' = runs + 1

\* print(f"... {chain_tasks_wf()}") and print(f"... {chain_workflows_wf()}"):
\* the call is made.
MainCall ==
    /\ DefsDone
    /\ mainpc \in {"call143", "call144"}
    /\ Launch(IF mainpc = "call143" THEN "chain_tasks_wf" ELSE "chain_workflows_wf")
    /\ mainpc' = IF mainpc = "call143" THEN "wait143" ELSE "wait144"
    /\ UNCHANGED <<defVars, envVars, fixVars>>

\* The call returned and its result is printed.
MainPrint ==
    /\ mainpc \in {"wait143", "wait144"}
    /\ run.status = "succeeded"
    /\ mainpc' = IF mainpc = "wait143" THEN "call144" ELSE "end"
    /\ UNCHANGED <<defVars, runs, runVars, prev, envVars, fixVars>>

\* The call raised: the exception ends the script.
MainRaise ==
    /\ mainpc \in {"wait143", "wait144"}
    /\ run.status = "failed"
    /\ mainpc' = "raised"
    /\ UNCHANGED <<defVars, runs, runVars, prev, envVars, fixVars>>

\* On the engine either workflow is launched, one execution after the other.
RemoteLaunch(w) ==
    /\ DefsDone
    /\ mode = "remote"
    /\ run.status # "running"
    /\ runs < MaxRuns
    /\ Launch(w)
    /\ UNCHANGED <<defVars, mainpc, envVars, fixVars>>

\* A task node starts: its body is about to run.
TaskStart(p) ==
    /\ Ready(p)
    /\ IsTask(NodeAt(p).entity)
    /\ ~CacheHit(NodeAt(p).entity)
    /\ nstatus' = [nstatus EXCEPT ![p] = "running"]
    /\ log' = Append(log, Event(p, "begin", "none"))
    /\ UNCHANGED <<defVars, mainpc, runs, run, nout, result, prev, envVars, fixVars>>

\* A task node is served from the cache: its body does not run.
TaskCached(p) ==
    /\ Ready(p)
    /\ IsTask(NodeAt(p).entity)
    /\ CacheHit(NodeAt(p).entity)
    /\ nstatus' = [nstatus EXCEPT ![p] = "succeeded"]
    /\ log' = Append(log, Event(p, "hit", "none"))
    /\ UNCHANGED <<defVars, mainpc, runs, run, nout, result, prev, envVars, fixVars>>

\* The statuses after node p raised: the node fails, and with it the
\* subworkflow node it runs in.
Failed(p) ==
    [q \in DOMAIN nstatus |->
        IF q = p \/ (Len(p) > 1 /\ q = Parent(p)) THEN "failed" ELSE nstatus[q]]

\* The body of a running task runs to its end: it returns, or raises and
\* fails the execution.
TaskFinish(p) ==
    /\ run.status = "running"
    /\ nstatus[p] = "running"
    /\ IsTask(NodeAt(p).entity)
    /\ \E fault \in (IF faults > 0 THEN BOOLEAN ELSE {FALSE}) :
         LET task == NodeAt(p).entity
             r == RunTask(task, store, fault)
         IN /\ store' = r.store
            /\ faults' = IF fault THEN faults - 1 ELSE faults
            /\ IF r.raised
               THEN /\ nstatus' = Failed(p)
                    /\ run' = [run EXCEPT !.status = "failed"]
                    /\ log' = Append(log, Event(p, "fail", r.code))
                    /\ UNCHANGED <<nout, cache>>
               ELSE /\ nstatus' = [nstatus EXCEPT ![p] = "succeeded"]
                    /\ nout' = [nout EXCEPT ![p] = r.value]
                    /\ log' = Append(log, Event(p, "end", r.code))
                    /\ cache' = IF cacheEnabled /\ Cacheable(task)
                                THEN cache \cup {task} ELSE cache
                    /\ UNCHANGED run
    /\ UNCHANGED <<defVars, mainpc, runs, result, prev, first, fixVars>>

\* A subworkflow node starts: the nodes inside it may now run.
SubWfStart(p) ==
    /\ Ready(p)
    /\ ~IsTask(NodeAt(p).entity)
    /\ nstatus' = [nstatus EXCEPT ![p] = "running"]
    /\ log' = Append(log, Event(p, "begin", "none"))
    /\ UNCHANGED <<defVars, mainpc, runs, run, nout, result, prev, envVars, fixVars>>

\* A subworkflow node taken as complete as soon as it has started.
SubWfComplete_Eager(p) == nstatus[p] = "running"

\* Whether the subworkflow node p has nothing left to run.
SubWfComplete(p) == \A q \in Children(p) : nstatus[q] = "succeeded"

\* The value a workflow returns: the output of the node its output is bound to.
OutputOf(w, base) ==
    IF wfs[w].output = 0 THEN NoValue ELSE nout[Append(base, wfs[w].output)]

\* A subworkflow node ends once every node inside it has succeeded.
SubWfFinish(p) ==
    /\ run.status = "running"
    /\ nstatus[p] = "running"
    /\ ~IsTask(NodeAt(p).entity)
    /\ SubWfComplete(p)
    /\ nstatus' = [nstatus EXCEPT ![p] = "succeeded"]
    /\ nout' = [nout EXCEPT ![p] = OutputOf(NodeAt(p).entity, p)]
    /\ log' = Append(log, Event(p, "end", "none"))
    /\ UNCHANGED <<defVars, mainpc, runs, run, result, prev, envVars, fixVars>>

\* The execution ends once every node of the workflow has succeeded.
WfFinish ==
    /\ run.status = "running"
    /\ \A p \in DOMAIN nstatus : Len(p) = 1 => nstatus[p] = "succeeded"
    /\ run' = [run EXCEPT !.status = "succeeded"]
    /\ result' = OutputOf(run.wf, <<>>)
    /\ first' = IF first.set THEN first ELSE [set |-> TRUE, store |-> store]
    /\ UNCHANGED <<defVars, mainpc, runs, nstatus, nout, log, prev,
                   store, cache, faults, fixVars>>

Next ==
    \/ DefCall
    \/ DefChain
    \/ DefReturn
    \/ MainCall
    \/ MainPrint
    \/ MainRaise
    \/ \E w \in {"chain_tasks_wf", "chain_workflows_wf"} : RemoteLaunch(w)
    \/ \E p \in DOMAIN nstatus : TaskStart(p)
    \/ \E p \in DOMAIN nstatus : TaskCached(p)
    \/ \E p \in DOMAIN nstatus : TaskFinish(p)
    \/ \E p \in DOMAIN nstatus : SubWfStart(p)
    \/ \E p \in DOMAIN nstatus : SubWfFinish(p)
    \/ WfFinish

Spec == Init /\ [][Next]_vars

\* The engine and the interpreter keep running whatever can run.
FairSpec == Spec /\ WF_vars(Next)

(* ------------------------------------------------------------------ *)
(* Properties                                                           *)
(* ------------------------------------------------------------------ *)

Begin(task) == <<task, "begin">>
End(task) == <<task, "end">>

\* Every occurrence of event b in the sequence has an event a before it.
Precedes(te, a, b) ==
    \A i \in 1..Len(te) : te[i] = b => \E j \in 1..(i - 1) : te[j] = a

Ended(st) == st \in {"succeeded", "failed"}
TopWorkflows == {"chain_tasks_wf", "chain_workflows_wf"}
PathsRunning(entity) ==
    {p \in DOMAIN nstatus : NodeAt(p).entity = entity /\ nstatus[p] = "running"}

\* The edges of a workflow's graph: <<a, b>> when a is upstream of b.
Edges(w) ==
    {<<a, b>> \in (1..Len(wfs[w].nodes)) \X (1..Len(wfs[w].nodes)) :
        a \in wfs[w].nodes[b].upstream}

\* C1: in every execution of chain_tasks_wf, write does not begin before
\* create_bucket has completed and read does not begin before write has
\* completed; and no node of any execution begins before every node declared
\* upstream of it has completed.
C1_ChainOrder ==
    /\ run.wf = "chain_tasks_wf" =>
         /\ Precedes(TaskEvents(log), End("create_bucket"), Begin("write"))
         /\ Precedes(TaskEvents(log), End("write"), Begin("read"))
    /\ \A i \in 1..Len(log) :
         log[i].ev \in {"begin", "hit"} =>
           \A u \in NodeAt(log[i].path).upstream :
             \E j \in 1..(i - 1) :
               /\ log[j].path = Sibling(log[i].path, u)
               /\ log[j].ev \in {"end", "hit"}

\* On the engine, read of chain_tasks_wf is running, after write ran.
C1_Witness ==
    /\ mode = "remote"
    /\ run.wf = "chain_tasks_wf"
    /\ nstatus[<<3>>] = "running"
    /\ \E i \in 1..Len(log) : log[i].entity = "write" /\ log[i].ev = "end"

\* The order of the task events every execution follows.
CanonicalEvents ==
    <<Begin("create_bucket"), End("create_bucket"), Begin("write"), End("write"),
      Begin("read"), End("read")>>

\* The task events with a task's failure counted as its end.
Order(te) == [i \in 1..Len(te) |-> IF te[i][2] = "fail" THEN End(te[i][1]) ELSE te[i]]

IsPrefix(a, b) == Len(a) <= Len(b) /\ SubSeq(b, 1, Len(a)) = a

\* C2: chain_workflows_wf and chain_tasks_wf admit the same orderings of the
\* create_bucket, write and read executions (the events of either are a
\* prefix of the one order create_bucket, write, read); a subworkflow node
\* has succeeded only when every node inside it has; and two successful
\* executions, of either workflow, ran the tasks in the same order and
\* returned the same result.
C2_Equivalent ==
    /\ run.wf \in TopWorkflows => IsPrefix(Order(TaskEvents(log)), CanonicalEvents)
    /\ \A p \in DOMAIN nstatus :
         (~IsTask(NodeAt(p).entity) /\ nstatus[p] = "succeeded") =>
           \A q \in Children(p) : nstatus[q] = "succeeded"
    /\ (run.status = "succeeded" /\ prev.status = "succeeded") =>
         /\ prev.events = TaskEvents(log)
         /\ prev.result = result

\* chain_workflows_wf succeeded after chain_tasks_wf did.
C2_Witness ==
    /\ run.wf = "chain_workflows_wf"
    /\ run.status = "succeeded"
    /\ prev.wf = "chain_tasks_wf"
    /\ prev.status = "succeeded"
    /\ TaskEvents(log) = CanonicalEvents

\* C3: the table read() returns after write() stored the fixed record equals
\* the table write() built: one row, the five columns of the schema.
C3_RoundTrip ==
    \A p \in DOMAIN nstatus :
        (NodeAt(p).entity = "read" /\ nstatus[p] = "succeeded") => nout[p] = df

\* C4 as stated: whoever owns the existing bucket, create_bucket succeeds.
C4_AnyOwner ==
    \A i \in 1..Len(log) :
        (/\ log[i].entity = "create_bucket"
         /\ log[i].code \in {"BucketAlreadyOwnedByYou", "BucketAlreadyExists"})
            => log[i].ev = "end"

\* The step in which the body of the running create_bucket node p ends
\* without an injected error.
CreateBucketEnds(p) ==
    /\ p \in DOMAIN nstatus
    /\ NodeAt(p).entity = "create_bucket"
    /\ nstatus[p] = "running"
    /\ nstatus' # nstatus
    /\ nstatus'[p] # "running"
    /\ faults' = faults

\* C4, amended: when the bucket exists and the caller owns it, create_bucket
\* completes successfully and leaves the store unchanged, and the node chained
\* after it may run.
C4_OwnedByCaller ==
    /\ [](\A i \in 1..Len(log) :
            (log[i].entity = "create_bucket" /\ log[i].code = "BucketAlreadyOwnedByYou")
                => /\ log[i].ev = "end"
                   /\ nstatus[log[i].path] = "succeeded"
                   /\ (run.status = "running" /\ nstatus[<<2>>] = "queued") => Ready(<<2>>))
    /\ [][\A p \in {<<1>>} :
            (CreateBucketEnds(p) /\ store.owner[BUCKET_NAME] = "me")
                => /\ nstatus'[p] = "succeeded"
                   /\ store' = store
                   /\ run'.status = "running"]_vars

\* create_bucket found the bucket owned by the caller, and the next node ran.
C4_Witness ==
    /\ \E i \in 1..Len(log) :
         /\ log[i].entity = "create_bucket"
         /\ log[i].code = "BucketAlreadyOwnedByYou"
         /\ log[i].ev = "end"
    /\ nstatus[<<2>>] = "succeeded"

StorageError(code) == code \notin {"none", "ok", "BucketAlreadyOwnedByYou"}

LogHas(entity, evs) == \E i \in 1..Len(log) : log[i].entity = entity /\ log[i].ev \in evs

\* C5: a storage error other than BucketAlreadyOwnedByYou fails the task that
\* got it; when create_bucket fails neither write nor read executes, when
\* write fails read does not execute; a failed node fails the execution, which
\* returns no table.
C5_FailurePropagates ==
    /\ \A i \in 1..Len(log) : StorageError(log[i].code) => log[i].ev = "fail"
    /\ LogHas("create_bucket", {"fail"}) =>
         ~LogHas("write", {"begin", "hit", "end"}) /\ ~LogHas("read", {"begin", "hit", "end"})
    /\ LogHas("write", {"fail"}) => ~LogHas("read", {"begin", "hit", "end"})
    /\ (\E p \in DOMAIN nstatus : nstatus[p] = "failed") =>
         /\ run.status = "failed"
         /\ result = NoValue
    /\ \A i \in 1..Len(log) :
         log[i].ev = "fail" =>
           /\ nstatus[log[i].path] = "failed"
           /\ Len(log[i].path) > 1 => nstatus[Parent(log[i].path)] = "failed"

\* write failed inside its subworkflow and read never started.
C5_Witness ==
    /\ run.wf = "chain_workflows_wf"
    /\ LogHas("write", {"fail"})
    /\ run.status = "failed"
    /\ nstatus[<<3>>] = "queued"
    /\ nstatus[<<3, 1>>] = "queued"

ObjectExists ==
    /\ store.owner[BUCKET_NAME] # "none"
    /\ store.objects[<<BUCKET_NAME, CSV_FILE>>].present

DefChainStep == ~DefsDone /\ DefStmt.op = ">>" /\ defpc' # defpc

\* C7: a >> statement adds the edge a -> b to the graph of the workflow being
\* defined and changes nothing else; once chain_tasks_wf and chain_workflows_wf
\* are defined, each graph holds exactly the edges 1 -> 2 and 2 -> 3 over the
\* nodes create_bucket, write, read (or their subworkflows), every node has
\* the inputs and outputs its call gave it, and the workflow's output is
\* bound to the output of the read node.
C7_EdgeOnly ==
    /\ [][DefChainStep =>
            /\ \A v \in WorkflowNames \ {DefWf} : wfs'[v] = wfs[v]
            /\ Len(wfs'[DefWf].nodes) = Len(wfs[DefWf].nodes)
            /\ \A i \in 1..Len(wfs[DefWf].nodes) :
                 /\ wfs'[DefWf].nodes[i].entity = wfs[DefWf].nodes[i].entity
                 /\ wfs'[DefWf].nodes[i].inputs = wfs[DefWf].nodes[i].inputs
                 /\ wfs'[DefWf].nodes[i].outputs = wfs[DefWf].nodes[i].outputs
            /\ wfs'[DefWf].output = wfs[DefWf].output
            /\ wfs'[DefWf].compiled = wfs[DefWf].compiled
            /\ Edges(DefWf)' = Edges(DefWf) \cup {<<DefStmt.a, DefStmt.b>>}
            /\ UNCHANGED <<mainpc, runs, runVars, prev, envVars, fixVars>>]_vars
    /\ [](\A w \in TopWorkflows :
            wfs[w].compiled =>
              /\ Edges(w) = {<<1, 2>>, <<2, 3>>}
              /\ [i \in 1..Len(wfs[w].nodes) |-> wfs[w].nodes[i].entity]
                   = IF w = "chain_tasks_wf"
                     THEN <<"create_bucket", "write", "read">>
                     ELSE <<"create_bucket", "write_sub_workflow", "read_sub_workflow">>
              /\ \A i \in 1..Len(wfs[w].nodes) :
                   /\ wfs[w].nodes[i].inputs = {}
                   /\ wfs[w].nodes[i].outputs = Outputs(wfs[w].nodes[i].entity)
              /\ wfs[w].output = 3
              /\ wfs[w].nodes[wfs[w].output].outputs = <<"o0">>)

\* Both >> statements of chain_workflows_wf have run; its return has not.
C7_Witness ==
    /\ ~DefsDone
    /\ DefWf = "chain_workflows_wf"
    /\ DefStmt.op = "return"
    /\ Edges("chain_workflows_wf") = {<<1, 2>>, <<2, 3>>}

\* C8: in every execution of either workflow create_bucket has completed
\* before read begins, and neither graph holds an edge from create_bucket's
\* node to read's node.
C8_Transitive ==
    /\ run.wf \in TopWorkflows =>
         Precedes(TaskEvents(log), End("create_bucket"), Begin("read"))
    /\ \A w \in TopWorkflows : wfs[w].compiled => <<1, 3>> \notin Edges(w)

\* On the engine, read is running inside read_sub_workflow.
C8_Witness ==
    /\ mode = "remote"
    /\ run.wf = "chain_workflows_wf"
    /\ nstatus[<<3, 1>>] = "running"

Executions(task) ==
    Cardinality({i \in 1..Len(log) : log[i].entity = task /\ log[i].ev = "begin"})

ReadPath == IF run.wf = "chain_tasks_wf" THEN <<3>> ELSE <<3, 1>>

C9_Safety ==
    /\ \A t \in TaskNames : Executions(t) <= 1
    /\ (Ended(run.status) /\ ~LogHas("create_bucket", {"fail"})
          /\ ~LogHas("write", {"fail"}) /\ ~LogHas("read", {"fail"}))
          => run.status = "succeeded"
    /\ run.status = "succeeded" =>
          /\ result # NoValue
          /\ result = nout[ReadPath]
          /\ nstatus[ReadPath] = "succeeded"
    /\ (mode = "local" /\ run.wf = "chain_workflows_wf") =>
          /\ prev.wf = "chain_tasks_wf"
          /\ prev.status = "succeeded"

RunActive == run.status = "running"

RunOver ==
    \/ run.status = "succeeded"
    \/ LogHas("create_bucket", {"fail"})
    \/ LogHas("write", {"fail"})
    \/ LogHas("read", {"fail"})

\* C9: an execution that is running ends, succeeded unless a storage
\* operation failed; it has then executed each task at most once and returned
\* the table read produced; run as __main__, chain_workflows_wf begins only
\* after chain_tasks_wf has completed.
C9_Completes == []C9_Safety /\ (RunActive ~> RunOver)

\* The script ran both workflows to the end and the second returned a table.
C9_Witness ==
    /\ mainpc = "end"
    /\ run.wf = "chain_workflows_wf"
    /\ run.status = "succeeded"
    /\ result = nout[<<3, 1>>]
    /\ result # NoValue

\* The step in which the body of a running read node ends.
ReadEnds ==
    \E p \in DOMAIN nstatus :
        /\ NodeAt(p).entity = "read"
        /\ nstatus[p] = "running"
        /\ nstatus'[p] # "running"

\* C10: nothing but the bucket chain-flyte-entities and its object iris.csv
\* is ever changed, iris.csv only to the text of the fixed table; read
\* never changes the store; and once an execution has succeeded, the store
\* stays as that execution left it.
C10_Idempotent ==
    /\ [](/\ \A b \in Buckets, k \in Keys :
               <<b, k>> # <<BUCKET_NAME, CSV_FILE>> =>
                   store.objects[<<b, k>>] = store0.objects[<<b, k>>]
          /\ store.owner[OTHER_BUCKET] = store0.owner[OTHER_BUCKET]
          /\ store.owner[BUCKET_NAME] \in {store0.owner[BUCKET_NAME], "me"}
          /\ store.objects[<<BUCKET_NAME, CSV_FILE>>]
               \in {store0.objects[<<BUCKET_NAME, CSV_FILE>>], Object(csv_buffer)}
          /\ first.set => store = first.store)
    /\ [][ReadEnds => store' = store]_vars

\* With the cache off, write ran again in a later execution, which succeeded.
C10_Witness ==
    /\ first.set
    /\ ~cacheEnabled
    /\ runs >= 2
    /\ LogHas("write", {"end"})
    /\ run.status = "succeeded"
====
